---- MODULE Spec2Model ----
(***************************************************************************)
(* Model of the marketing-site front end: the TopBar search ranking and    *)
(* selection cursor, the TopBar scroll-phase machine, and the              *)
(* useScrollToSection hook, and the FeatureGrid.                           *)
(*                                                                         *)
(* Strings are sequences of one-character strings, so that toLowerCase,   *)
(* trim, startsWith and includes are computed character by character.      *)
(* An optional field (priority?: number) is a sequence of length 0 (unset) *)
(* or 1 (set).                                                             *)
(*                                                                         *)
(* An action is one event handler together with the render it causes and   *)
(* the effects of that render (the memo recomputation, the selection reset *)
(* and the phase effect), which React runs before the next event is        *)
(* handled.  The DOM focus of the search input is not tracked: key and     *)
(* change events are accepted whenever the TopBar is mounted.  The pay     *)
(* dropdown (showPayDropdown) has no part in the modelled behaviour and is *)
(* left out.  lastEvent, hookScrollY, hookEvent and gridEvent are history  *)
(* variables.                                                              *)
(***************************************************************************)
EXTENDS Integers, Sequences, FiniteSets, TLC

VARIABLES
    \* ---- TopBar: search ranking (useState / useMemo) ----
    searchQuery,          \* useState('')
    searchableItems,      \* useState<SearchResult[]>([])
    scoredItems,          \* the {item, score} list built inside the useMemo
    searchResults,        \* the memoised ranked list
    rankPc,               \* "input" before the memo has been evaluated, "ranked" after
    \* ---- TopBar: component state, refs, timers and the fetch ----
    mountState,           \* "constructed" (rendered, effects not yet run), "mounted", "unmounted"
    isScrolled,           \* useState(false)
    scrollPhase,          \* useState('idle')
    hasMountedRef,        \* useRef(false)
    phaseTimer,           \* ms left on the window.setTimeout of the phase effect, NoTimer if none
    isSearchFocused,      \* useState(false)
    isSearchExpanded,     \* useState(false)
    selectedResultIndex,  \* useState(-1), 0-based as in the source
    fetchState,           \* "idle", "pending", "applied", "discarded", "failed"
    isMounted,            \* the let isMounted of the catalog-loading effect
    focusTimers,          \* pending setTimeout callbacks of handleSearchIconClick
    pathname,             \* location.pathname of useLocation()
    sessionFlag,          \* sessionStorage 'scrollToSection': <<>> or <<section id>>
    lastEvent,            \* history: the last event handled and the state it found
    \* ---- useScrollToSection hook ----
    activeSection,        \* useState('home')
    sectionOffsets,       \* the document: offsetTop of each tracked section's element, if any
    hookScrollY,          \* history: window.scrollY read by the last scroll event, if any
    hookEvent,            \* history: the last call of the hook and the scroll it requested
    \* ---- FeatureGrid ----
    gridMountState,       \* "constructed", "mounted", "unmounted"
    features,             \* useState<FeaturesData | null>(null): <<>> or <<data>>
    isLoading,            \* useState(true)
    flippedCards,         \* useState(new Set()): indexes of the flipped large cards
    gridFetchState,       \* "idle", "pending", "resolved", "failed"
    gridView,             \* what the last render returned: <<>> for null, else <<cells>>
    gridEvent             \* history: the last event of the grid and the setters it called

rankVars == <<searchQuery, searchableItems, scoredItems, searchResults, rankPc>>

topBarVars == <<mountState, isScrolled, scrollPhase, hasMountedRef, phaseTimer,
                isSearchFocused, isSearchExpanded, selectedResultIndex,
                fetchState, isMounted, focusTimers, pathname, sessionFlag, lastEvent>>

\* what a selection may navigate or write
navVars == <<pathname, sessionFlag>>

hookVars == <<activeSection, sectionOffsets, hookScrollY, hookEvent>>

gridVars == <<gridMountState, features, isLoading, flippedCards, gridFetchState,
              gridView, gridEvent>>

\* the components other than the TopBar
otherComponents == <<hookVars, gridVars>>

vars == <<rankVars, topBarVars, hookVars, gridVars>>

----------------------------------------------------------------------------
(* Bounds of the model *)

MaxCatalogLen == 2      \* longest catalog drawn entry by entry
MaxRepeat == 5          \* a drawn catalog is also taken MaxRepeat times over

----------------------------------------------------------------------------
(* String primitives of the JavaScript runtime *)

UpperChars == <<"A","B","C","D","E","F","G","H","I","J","K","L","M",
                "N","O","P","Q","R","S","T","U","V","W","X","Y","Z">>
LowerChars == <<"a","b","c","d","e","f","g","h","i","j","k","l","m",
                "n","o","p","q","r","s","t","u","v","w","x","y","z">>

LowerChar(c) ==
    IF \E i \in 1..Len(UpperChars) : UpperChars[i] = c
    THEN LowerChars[CHOOSE i \in 1..Len(UpperChars) : UpperChars[i] = c]
    ELSE c

toLowerCase(s) == [i \in 1..Len(s) |-> LowerChar(s[i])]

IsWhitespace(c) == c = " "

RECURSIVE trimStart(_)
trimStart(s) ==
    IF s # <<>> /\ IsWhitespace(Head(s)) THEN trimStart(Tail(s)) ELSE s

RECURSIVE trimEnd(_)
trimEnd(s) ==
    IF s # <<>> /\ IsWhitespace(s[Len(s)])
    THEN trimEnd(SubSeq(s, 1, Len(s) - 1))
    ELSE s

trim(s) == trimEnd(trimStart(s))

startsWith(s, q) == Len(q) <= Len(s) /\ SubSeq(s, 1, Len(q)) = q

includes(s, q) ==
    \E i \in 0..(Len(s) - Len(q)) : SubSeq(s, i + 1, i + Len(q)) = q

----------------------------------------------------------------------------
(* Search ranking: the body of the searchResults useMemo *)

ScoreLabelExact == 1000
ScoreLabelStartsWith == 500
ScoreLabelContains == 300
ScoreKeywordExact == 200
ScoreKeywordStartsWith == 150
ScoreKeywordContains == 100
DefaultPriority == 50
MaxResults == 8

\* item.keywords?.some(...): an entry without keywords carries <<>>, for
\* which the optional chain yields undefined (falsy), as some() does on [].
someKeywordEquals(item, query) ==
    \E i \in 1..Len(item.keywords) : toLowerCase(item.keywords[i]) = query

someKeywordStartsWith(item, query) ==
    \E i \in 1..Len(item.keywords) : startsWith(toLowerCase(item.keywords[i]), query)

someKeywordIncludes(item, query) ==
    \E i \in 1..Len(item.keywords) : includes(toLowerCase(item.keywords[i]), query)

\* a chain without the keyword-equality branch
matchScore_NoKeywordExact(item, query) ==
    LET labelLower == toLowerCase(item.label) IN
    IF labelLower = query THEN ScoreLabelExact
    ELSE IF startsWith(labelLower, query) THEN ScoreLabelStartsWith
    ELSE IF includes(labelLower, query) THEN ScoreLabelContains
    ELSE IF someKeywordStartsWith(item, query) THEN ScoreKeywordStartsWith
    ELSE IF someKeywordIncludes(item, query) THEN ScoreKeywordContains
    ELSE 0

\* a chain that scores keyword and label matches by the better of the two
matchScore_KeywordOverLabelContains(item, query) ==
    LET labelLower == toLowerCase(item.label) IN
    IF labelLower = query THEN ScoreLabelExact
    ELSE IF startsWith(labelLower, query) THEN ScoreLabelStartsWith
    ELSE IF someKeywordEquals(item, query) THEN ScoreKeywordExact
    ELSE IF includes(labelLower, query) THEN ScoreLabelContains
    ELSE IF someKeywordStartsWith(item, query) THEN ScoreKeywordStartsWith
    ELSE IF someKeywordIncludes(item, query) THEN ScoreKeywordContains
    ELSE 0

\* The if / else-if chain that sets score before the priority is added.
matchScore(item, query) ==
    LET labelLower == toLowerCase(item.label) IN
    IF labelLower = query THEN ScoreLabelExact
    ELSE IF startsWith(labelLower, query) THEN ScoreLabelStartsWith
    ELSE IF includes(labelLower, query) THEN ScoreLabelContains
    ELSE IF someKeywordEquals(item, query) THEN ScoreKeywordExact
    ELSE IF someKeywordStartsWith(item, query) THEN ScoreKeywordStartsWith
    ELSE IF someKeywordIncludes(item, query) THEN ScoreKeywordContains
    ELSE 0

\* (item.priority || 50): undefined and 0 are both falsy.
priorityOrDefault(item) ==
    IF item.priority = <<>> \/ item.priority[1] = 0
    THEN DefaultPriority
    ELSE item.priority[1]

\* if (score > 0) { score += (item.priority || 50); }
itemScore(item, query) ==
    LET score == matchScore(item, query) IN
    IF score > 0 THEN score + priorityOrDefault(item) ELSE score

\* searchableItems.map((item) => ... return { item, score })
scoreItems(items, query) ==
    [i \in 1..Len(items) |-> [item |-> items[i], score |-> itemScore(items[i], query)]]

\* a filter that lets unmatched entries through
keepScored_AcceptsZero(s) == s.score >= 0

\* .filter((s) => s.score > 0)
keepScored(s) == s.score > 0

filterScored(scored) == SelectSeq(scored, keepScored)

\* the comparator (a, b) => b.score - a.score
compareScore(a, b) == b.score - a.score

\* Array.prototype.sort is a stable sort: an element is placed after every
\* element already placed that the comparator does not order after it.
RECURSIVE insertSorted(_, _)
insertSorted(sorted, x) ==
    IF sorted = <<>> THEN <<x>>
    ELSE IF compareScore(Head(sorted), x) <= 0
         THEN <<Head(sorted)>> \o insertSorted(Tail(sorted), x)
         ELSE <<x>> \o sorted

RECURSIVE sortByScore(_)
sortByScore(scored) ==
    IF scored = <<>> THEN <<>>
    ELSE insertSorted(sortByScore(SubSeq(scored, 1, Len(scored) - 1)),
                      scored[Len(scored)])

\* .slice(0, 8)
sliceResults(s) == SubSeq(s, 1, IF Len(s) < MaxResults THEN Len(s) ELSE MaxResults)

\* .filter(...).sort(...).map((s) => s.item).slice(0, 8)
rankScored(scored) ==
    LET sorted == sortByScore(filterScored(scored)) IN
    sliceResults([i \in 1..Len(sorted) |-> sorted[i].item])

\* if (!searchQuery.trim()) return [];  const query = searchQuery.toLowerCase();
scoredItemsMemo(query, items) ==
    IF trim(query) = <<>> THEN <<>> ELSE scoreItems(items, toLowerCase(query))

\* a memo that tests the query for emptiness without trimming it
searchResultsMemo_NoTrim(query, items) ==
    IF query = <<>> THEN <<>> ELSE rankScored(scoreItems(items, toLowerCase(query)))

searchResultsMemo(query, items) ==
    IF trim(query) = <<>> THEN <<>> ELSE rankScored(scoreItems(items, toLowerCase(query)))

----------------------------------------------------------------------------
(* Inputs of the ranking: catalogs (the JSON asset) and query texts *)

\* One SearchResult object; id is the entry's position in the catalog.
SearchEntry(id, shape, priority) ==
    [id |-> id, label |-> shape.label, type |-> shape.type, path |-> shape.path,
     section |-> shape.section, keywords |-> shape.keywords, priority |-> priority]

PageShape(label, keywords) ==
    [label |-> label, type |-> "page", path |-> <<"/">>, section |-> <<>>,
     keywords |-> keywords]

\* label / keywords combinations: one per branch of the scoring chain for
\* the query "a", and one with no match
LabelShapes ==
    { PageShape(<<"a">>, <<>>),
      PageShape(<<"A","b">>, <<>>),
      PageShape(<<"b","a">>, << <<"a">> >>),
      PageShape(<<"c">>, << <<"A">> >>),
      PageShape(<<"c">>, << <<"b">>, <<"A","b","c">> >>),
      PageShape(<<"c">>, << <<"b","a">> >>),
      PageShape(<<"c">>, <<>>) }

\* priority?: number -- unset, zero, above every tier gap, below every tier
Priorities == { <<>>, <<0>>, <<600>>, <<-1000>> }

EntryShapes == LabelShapes \X Priorities

ShapeSeqs(n) == UNION { [1..k -> EntryShapes] : k \in 0..n }

Catalog(shapes) ==
    [i \in 1..Len(shapes) |-> SearchEntry(i, shapes[i][1], shapes[i][2])]

RECURSIVE Repeat(_, _)
Repeat(s, n) == IF n = 0 THEN <<>> ELSE s \o Repeat(s, n - 1)

PayNowShape ==
    [label |-> <<"P","a","y"," ","N","o","w">>, type |-> "action",
     path |-> <<"h","t","t","p","s",":","/","/","p","a","y">>, section |-> <<>>,
     keywords |-> <<>>]

EasySetupShape ==
    [label |-> <<"E","a","s","y"," ","S","e","t","u","p">>, type |-> "content",
     path |-> <<"/">>, section |-> <<"s","e","t","u","p">>,
     keywords |-> << <<"p","a","y">> >>]

PayCatalogs ==
    { Catalog(<< <<PayNowShape, <<90>> >>, <<EasySetupShape, <<50>> >> >>),
      Catalog(<< <<EasySetupShape, <<50>> >>, <<PayNowShape, <<90>> >> >>) }

RankCatalogs ==
    { Catalog(s) : s \in ShapeSeqs(MaxCatalogLen) }
    \cup { Catalog(Repeat(s, MaxRepeat)) : s \in (ShapeSeqs(2) \ {<<>>}) }
    \cup PayCatalogs

RankQueries ==
    { <<>>, <<" ">>, <<"a">>, <<"A">>, <<"a","b">>, <<"a"," ">>, <<"p","a","y">> }

----------------------------------------------------------------------------
(* TopBar: state after construction (first render, before any effect) *)

NoTimer == -1

NoEvent == [name |-> "none", index |-> -1, scrolled |-> FALSE, phase |-> "idle",
            timer |-> NoTimer, scrollY |-> 0, renewed |-> FALSE,
            selected |-> <<>>, calls |-> <<>>]

TopBarConstructed ==
    /\ mountState = "constructed"
    /\ isScrolled = FALSE
    /\ scrollPhase = "idle"
    /\ hasMountedRef = FALSE
    /\ phaseTimer = NoTimer
    /\ isSearchFocused = FALSE
    /\ isSearchExpanded = FALSE
    /\ selectedResultIndex = -1
    /\ fetchState = "idle"
    /\ isMounted = FALSE
    /\ focusTimers = 0
    /\ pathname = <<"/">>
    /\ sessionFlag = <<>>
    /\ lastEvent = NoEvent

NoHookEvent == [name |-> "none", id |-> "", scroll |-> <<>>]

\* the hook's state after construction, on a page without tracked sections
HookConstructed ==
    /\ activeSection = "home"
    /\ sectionOffsets = [section \in {"operator-portal", "mobile-app"} |-> <<>>]
    /\ hookScrollY = <<>>
    /\ hookEvent = NoHookEvent

NoGridEvent == [name |-> "none", calls |-> <<>>, mounted |-> FALSE]

\* the FeatureGrid after construction: first render, before the effect
GridConstructed ==
    /\ gridMountState = "constructed"
    /\ features = <<>>
    /\ isLoading = TRUE
    /\ flippedCards = {}
    /\ gridFetchState = "idle"
    /\ gridView = <<>>
    /\ gridEvent = NoGridEvent

----------------------------------------------------------------------------
(* Specification of the ranking alone: the memo evaluated on drawn inputs *)

InitRank ==
    /\ searchQuery \in RankQueries
    /\ searchableItems \in RankCatalogs
    /\ scoredItems = <<>>
    /\ searchResults = <<>>
    /\ rankPc = "input"
    /\ TopBarConstructed
    /\ HookConstructed
    /\ GridConstructed

\* one evaluation of the useMemo callback
EvaluateMemo ==
    /\ rankPc = "input"
    /\ scoredItems' = scoredItemsMemo(searchQuery, searchableItems)
    /\ searchResults' = searchResultsMemo(searchQuery, searchableItems)
    /\ rankPc' = "ranked"
    /\ UNCHANGED <<searchQuery, searchableItems, topBarVars, otherComponents>>

NextRank == EvaluateMemo

SpecRank == InitRank /\ [][NextRank]_vars

----------------------------------------------------------------------------
(* TopBar: effects and event handlers *)

ScrollThreshold == 100
PhaseResetDelay == 450
MaxFocusTimers == 1     \* deferred focus calls that may be pending at once

\* scroll offsets the window may report when an event is handled
ScrollYs == {0, 100, 101}

\* time advances in steps of this many ms
TickSteps == {300}

\* result.path.startsWith('http')
HttpPrefix == <<"h","t","t","p">>

\* const offset = 100 of the in-page scroll
SelectScrollOffset == 100

\* document top of the element of a result's section: none, or one at 800px
ElementTops == { <<>>, <<800>> }

CareersShape ==
    [label |-> <<"C","a","r","e","e","r","s">>, type |-> "page",
     path |-> <<"/","c","a","r","e","e","r","s">>, section |-> <<>>,
     keywords |-> << <<"j","o","b","s">> >>]

\* a content entry with a section anchor on a page other than home
CareersFaqShape ==
    [label |-> <<"C","a","r","e","e","r","s"," ","F","A","Q">>, type |-> "content",
     path |-> <<"/","c","a","r","e","e","r","s">>, section |-> <<"f","a","q">>,
     keywords |-> <<>>]

\* routes the application may be on
Pathnames == { <<"/">>, <<"/","c","a","r","e","e","r","s">> }

\* a catalog with an external action, a home section, a page and a section
\* of that page
SiteCatalog ==
    Catalog(<< <<PayNowShape, <<90>> >>, <<EasySetupShape, <<50>> >>,
               <<CareersShape, <<100>> >>, <<CareersFaqShape, <<40>> >> >>)

\* catalogs the asset fetch may deliver
TopBarCatalogs ==
    { Catalog(Repeat(<< <<PageShape(<<"a">>, <<>>), <<>> >>,
                        <<PageShape(<<"A","b">>, <<>>), <<600>> >> >>, MaxRepeat)),
      SiteCatalog }

\* texts the user may have in the search input
TopBarQueries == { <<>>, <<" ">>, <<"a">>, <<"A">>, <<"p","a","y">> }

\* history records: the event and the part of the state it found
SearchEvent(name) ==
    [name |-> name, index |-> selectedResultIndex, scrolled |-> FALSE,
     phase |-> "idle", timer |-> NoTimer, scrollY |-> 0, renewed |-> FALSE,
     selected |-> <<>>, calls |-> <<>>]

ScrollEvent(name, y) ==
    [name |-> name, index |-> -1, scrolled |-> isScrolled,
     phase |-> scrollPhase, timer |-> phaseTimer, scrollY |-> y,
     renewed |-> FALSE, selected |-> <<>>, calls |-> <<>>]

\* the event e, whose render produced a new searchResults array iff depsChanged
Renewing(e, depsChanged) == [e EXCEPT !.renewed = depsChanged]

\* an event that passed result to handleSearchSelect, which made the calls
SelectEvent(name, result, calls) ==
    [name |-> name, index |-> selectedResultIndex, scrolled |-> FALSE,
     phase |-> "idle", timer |-> NoTimer, scrollY |-> 0, renewed |-> FALSE,
     selected |-> <<result>>, calls |-> calls]

\* a phase effect that shows on scrolling down and hides on scrolling up
phaseEffect_Swapped(mountedRef, scrolled, phase, timer) ==
    IF ~mountedRef
    THEN [hasMountedRef |-> TRUE, scrollPhase |-> phase, phaseTimer |-> timer]
    ELSE [hasMountedRef |-> TRUE,
          scrollPhase |-> IF scrolled THEN "show" ELSE "hide",
          phaseTimer |-> PhaseResetDelay]

\* a phase effect that sets the phase without scheduling its reset
phaseEffect_NoTimeout(mountedRef, scrolled, phase, timer) ==
    IF ~mountedRef
    THEN [hasMountedRef |-> TRUE, scrollPhase |-> phase, phaseTimer |-> timer]
    ELSE [hasMountedRef |-> TRUE,
          scrollPhase |-> IF scrolled THEN "hide" ELSE "show",
          phaseTimer |-> NoTimer]

\* One run of the effect on [isScrolled]: the first run only sets the ref;
\* a later run (after the cleanup cleared the previous timeout) sets the
\* phase and schedules its reset.
phaseEffect(mountedRef, scrolled, phase, timer) ==
    IF ~mountedRef
    THEN [hasMountedRef |-> TRUE, scrollPhase |-> phase, phaseTimer |-> timer]
    ELSE [hasMountedRef |-> TRUE,
          scrollPhase |-> IF scrolled THEN "hide" ELSE "show",
          phaseTimer |-> PhaseResetDelay]

\* setIsScrolled(window.scrollY > 100) and the render it causes: the phase
\* effect runs again only when isScrolled changed.
applyScroll(y, e) ==
    LET scrolled == y > ScrollThreshold IN
    IF scrolled # isScrolled
    THEN phaseEffect(e.hasMountedRef, scrolled, e.scrollPhase, NoTimer)
    ELSE e

\* a render whose recomputed list does not reset the selection
RenderSearch_NoReset(query, items, depsChanged, index) ==
    /\ searchQuery' = query
    /\ searchableItems' = items
    /\ IF depsChanged
       THEN /\ scoredItems' = scoredItemsMemo(query, items)
            /\ searchResults' = searchResultsMemo(query, items)
       ELSE UNCHANGED <<scoredItems, searchResults>>
    /\ selectedResultIndex' = index
    /\ UNCHANGED rankPc

\* The render after searchQuery / searchableItems were set: the memo is
\* recomputed when a dependency changed, and the effect on [searchResults]
\* then resets the selection; otherwise the index the handler set stands.
RenderSearch(query, items, depsChanged, index) ==
    /\ searchQuery' = query
    /\ searchableItems' = items
    /\ IF depsChanged
       THEN /\ scoredItems' = scoredItemsMemo(query, items)
            /\ searchResults' = searchResultsMemo(query, items)
            /\ selectedResultIndex' = -1
       ELSE /\ UNCHANGED <<scoredItems, searchResults>>
            /\ selectedResultIndex' = index
    /\ UNCHANGED rankPc

scrollVars == <<isScrolled, scrollPhase, hasMountedRef, phaseTimer>>

\* The mount effects, in source order, and the render they cause.
Mount(y) ==
    /\ mountState = "constructed"
    /\ LET first == phaseEffect(hasMountedRef, isScrolled, scrollPhase, phaseTimer)
           after == applyScroll(y, first)
       IN /\ isScrolled' = (y > ScrollThreshold)
          /\ hasMountedRef' = after.hasMountedRef
          /\ scrollPhase' = after.scrollPhase
          /\ phaseTimer' = after.phaseTimer
    /\ mountState' = "mounted"
    /\ isMounted' = TRUE
    /\ fetchState' = "pending"
    /\ RenderSearch(searchQuery, searchableItems, FALSE, -1)
    /\ lastEvent' = ScrollEvent("mount", y)
    /\ UNCHANGED <<otherComponents, navVars, isSearchFocused, isSearchExpanded, focusTimers>>

\* window 'scroll' listener of the scroll-detection effect
Scroll(y) ==
    /\ mountState = "mounted"
    /\ LET after == applyScroll(y, [hasMountedRef |-> hasMountedRef,
                                    scrollPhase |-> scrollPhase,
                                    phaseTimer |-> phaseTimer])
       IN /\ isScrolled' = (y > ScrollThreshold)
          /\ hasMountedRef' = after.hasMountedRef
          /\ scrollPhase' = after.scrollPhase
          /\ phaseTimer' = after.phaseTimer
    /\ lastEvent' = ScrollEvent("scroll", y)
    /\ UNCHANGED <<otherComponents, navVars, rankVars, mountState, isSearchFocused, isSearchExpanded,
                   selectedResultIndex, fetchState, isMounted, focusTimers>>

\* time passes while the phase timeout is pending
Tick ==
    /\ mountState = "mounted"
    /\ phaseTimer > 0
    /\ \E dt \in TickSteps :
          phaseTimer' = IF phaseTimer > dt THEN phaseTimer - dt ELSE 0
    /\ lastEvent' = ScrollEvent("tick", 0)
    /\ UNCHANGED <<otherComponents, navVars, rankVars, mountState, isScrolled, scrollPhase, hasMountedRef,
                   isSearchFocused, isSearchExpanded, selectedResultIndex,
                   fetchState, isMounted, focusTimers>>

\* a timeout callback that leaves the phase as it is
PhaseTimeout_KeepsPhase ==
    /\ phaseTimer = 0
    /\ phaseTimer' = NoTimer
    /\ lastEvent' = ScrollEvent("phaseTimeout", 0)
    /\ UNCHANGED <<otherComponents, navVars, rankVars, mountState, isScrolled, hasMountedRef,
                   isSearchFocused, isSearchExpanded, selectedResultIndex,
                   fetchState, isMounted, focusTimers, scrollPhase>>

\* the callback of window.setTimeout(() => setScrollPhase('idle'), 450)
PhaseTimeout ==
    /\ phaseTimer = 0
    /\ scrollPhase' = "idle"
    /\ phaseTimer' = NoTimer
    /\ lastEvent' = ScrollEvent("phaseTimeout", 0)
    /\ UNCHANGED <<otherComponents, navVars, rankVars, mountState, isScrolled, hasMountedRef,
                   isSearchFocused, isSearchExpanded, selectedResultIndex,
                   fetchState, isMounted, focusTimers>>

\* teardown: the cleanups of the effects
Unmount ==
    /\ mountState = "mounted"
    /\ mountState' = "unmounted"
    /\ phaseTimer' = NoTimer
    /\ isMounted' = FALSE
    /\ lastEvent' = ScrollEvent("unmount", 0)
    /\ UNCHANGED <<otherComponents, navVars, rankVars, isScrolled, scrollPhase, hasMountedRef,
                   isSearchFocused, isSearchExpanded, selectedResultIndex,
                   fetchState, focusTimers>>

\* a load that applies its result without looking at isMounted
FetchResolve_NoGuard(data) ==
    /\ fetchState = "pending"
    /\ RenderSearch(searchQuery, data, TRUE, selectedResultIndex)
    /\ fetchState' = "applied"
    /\ lastEvent' = Renewing(SearchEvent("fetchResolve"), TRUE)
    /\ UNCHANGED <<otherComponents, navVars, mountState, scrollVars, isSearchFocused, isSearchExpanded,
                   isMounted, focusTimers>>

\* loadSearchResults: the response is ok and its JSON is data
FetchResolve(data) ==
    /\ fetchState = "pending"
    /\ IF isMounted
       THEN /\ RenderSearch(searchQuery, data, TRUE, selectedResultIndex)
            /\ fetchState' = "applied"
       ELSE /\ UNCHANGED <<rankVars, selectedResultIndex>>
            /\ fetchState' = "discarded"
    /\ lastEvent' = Renewing(SearchEvent("fetchResolve"), isMounted)
    /\ UNCHANGED <<otherComponents, navVars, mountState, scrollVars, isSearchFocused, isSearchExpanded,
                   isMounted, focusTimers>>

\* a load without the response.ok test: the body of an error response is
\* parsed and applied as the catalog
FetchFail_NoOkCheck ==
    /\ fetchState = "pending"
    /\ fetchState' = "failed"
    /\ \E data \in TopBarCatalogs :
          IF isMounted
          THEN RenderSearch(searchQuery, data, TRUE, selectedResultIndex)
          ELSE UNCHANGED <<rankVars, selectedResultIndex>>
    /\ lastEvent' = SearchEvent("fetchFail")
    /\ UNCHANGED <<otherComponents, navVars, mountState, scrollVars, isSearchFocused,
                   isSearchExpanded, isMounted, focusTimers>>

\* loadSearchResults: fetch rejects or the status is not ok; the catch block
\* runs console.error and nothing else (fetchState "failed")
FetchFail ==
    /\ fetchState = "pending"
    /\ fetchState' = "failed"
    /\ lastEvent' = SearchEvent("fetchFail")
    /\ UNCHANGED <<otherComponents, navVars, rankVars, mountState, scrollVars, isSearchFocused,
                   isSearchExpanded, selectedResultIndex, isMounted, focusTimers>>

\* handleSearchIconClick
SearchIconClick ==
    /\ mountState = "mounted"
    /\ focusTimers < MaxFocusTimers
    /\ isSearchExpanded' = TRUE
    /\ focusTimers' = focusTimers + 1
    /\ lastEvent' = SearchEvent("searchIconClick")
    /\ UNCHANGED <<otherComponents, navVars, rankVars, mountState, scrollVars, isSearchFocused,
                   selectedResultIndex, fetchState, isMounted>>

\* the callback of setTimeout(() => searchInputRef.current?.focus(), 100);
\* the ref is null once the input has been removed
FocusTimeout ==
    /\ focusTimers > 0
    /\ focusTimers' = focusTimers - 1
    /\ isSearchFocused' = IF mountState = "mounted" THEN TRUE ELSE isSearchFocused
    /\ lastEvent' = SearchEvent("focusTimeout")
    /\ UNCHANGED <<otherComponents, navVars, rankVars, mountState, scrollVars, isSearchExpanded,
                   selectedResultIndex, fetchState, isMounted>>

\* onFocus of the input
FocusInput ==
    /\ mountState = "mounted"
    /\ isSearchFocused' = TRUE
    /\ lastEvent' = SearchEvent("focus")
    /\ UNCHANGED <<otherComponents, navVars, rankVars, mountState, scrollVars, isSearchExpanded,
                   selectedResultIndex, fetchState, isMounted, focusTimers>>

\* onChange of the input: setSearchQuery(e.target.value)
ChangeQuery(q) ==
    /\ mountState = "mounted"
    /\ q # searchQuery
    /\ RenderSearch(q, searchableItems, TRUE, selectedResultIndex)
    /\ lastEvent' = Renewing(SearchEvent("change"), TRUE)
    /\ UNCHANGED <<otherComponents, navVars, mountState, scrollVars, isSearchFocused, isSearchExpanded,
                   fetchState, isMounted, focusTimers>>

\* a selection whose external branch does not return
selectCalls_NoReturn(result, path, elementTop) ==
    IF startsWith(result.path, HttpPrefix)
    THEN << [op |-> "window.open", arg |-> result.path],
            [op |-> "navigate", arg |-> result.path] >>
    ELSE IF result.type \in {"section", "content"} /\ result.section # <<>>
    THEN IF path = <<"/">> \/ result.path = <<"/">>
         THEN IF path = <<"/">>
              THEN IF elementTop # <<>>
                   THEN << [op |-> "window.scrollTo",
                            arg |-> elementTop[1] - SelectScrollOffset] >>
                   ELSE <<>>
              ELSE << [op |-> "navigate", arg |-> <<"/">>],
                      [op |-> "sessionStorage.setItem", arg |-> result.section] >>
         ELSE << [op |-> "navigate", arg |-> result.path] >>
    ELSE << [op |-> "navigate", arg |-> result.path] >>

\* The calls handleSearchSelect makes on window, the router and
\* sessionStorage, in order, when location.pathname is path and the element
\* of result.section is at elementTop (<<>> when there is none).
selectCalls(result, path, elementTop) ==
    IF startsWith(result.path, HttpPrefix)
    THEN << [op |-> "window.open", arg |-> result.path] >>
    ELSE IF result.type \in {"section", "content"} /\ result.section # <<>>
    THEN IF path = <<"/">> \/ result.path = <<"/">>
         THEN IF path = <<"/">>
              THEN IF elementTop # <<>>
                   THEN << [op |-> "window.scrollTo",
                            arg |-> elementTop[1] - SelectScrollOffset] >>
                   ELSE <<>>
              ELSE << [op |-> "navigate", arg |-> <<"/">>],
                      [op |-> "sessionStorage.setItem", arg |-> result.section] >>
         ELSE << [op |-> "navigate", arg |-> result.path] >>
    ELSE << [op |-> "navigate", arg |-> result.path] >>

\* the calls of one kind among calls
CallsOf(calls, op) == SelectSeq(calls, LAMBDA c : c.op = op)

\* handleSearchSelect: the router and sessionStorage follow the calls made;
\* every branch ends with setSearchQuery('') and setIsSearchFocused(false)
handleSearchSelect(result, calls) ==
    /\ pathname' = IF CallsOf(calls, "navigate") # <<>>
                   THEN CallsOf(calls, "navigate")[1].arg
                   ELSE pathname
    /\ sessionFlag' = IF CallsOf(calls, "sessionStorage.setItem") # <<>>
                      THEN << CallsOf(calls, "sessionStorage.setItem")[1].arg >>
                      ELSE sessionFlag
    /\ RenderSearch(<<>>, searchableItems, searchQuery # <<>>, selectedResultIndex)
    /\ isSearchFocused' = FALSE

\* an ArrowDown that does not stop at the last result
KeyArrowDown_Unbounded ==
    /\ mountState = "mounted"
    /\ selectedResultIndex' = selectedResultIndex + 1
    /\ lastEvent' = SearchEvent("ArrowDown")
    /\ UNCHANGED <<otherComponents, navVars, rankVars, mountState, scrollVars, isSearchFocused,
                   isSearchExpanded, fetchState, isMounted, focusTimers>>

\* handleSearchKeyDown, e.key === 'ArrowDown'
KeyArrowDown ==
    /\ mountState = "mounted"
    /\ selectedResultIndex' =
          IF selectedResultIndex < Len(searchResults) - 1
          THEN selectedResultIndex + 1
          ELSE selectedResultIndex
    /\ lastEvent' = SearchEvent("ArrowDown")
    /\ UNCHANGED <<otherComponents, navVars, rankVars, mountState, scrollVars, isSearchFocused,
                   isSearchExpanded, fetchState, isMounted, focusTimers>>

\* an ArrowUp that wraps from "no selection" to the last result
KeyArrowUp_Wraps ==
    /\ mountState = "mounted"
    /\ selectedResultIndex' =
          IF selectedResultIndex > 0 THEN selectedResultIndex - 1
          ELSE IF selectedResultIndex = 0 THEN -1
          ELSE Len(searchResults) - 1
    /\ lastEvent' = SearchEvent("ArrowUp")
    /\ UNCHANGED <<otherComponents, navVars, rankVars, mountState, scrollVars, isSearchFocused,
                   isSearchExpanded, fetchState, isMounted, focusTimers>>

\* handleSearchKeyDown, e.key === 'ArrowUp'
KeyArrowUp ==
    /\ mountState = "mounted"
    /\ selectedResultIndex' =
          IF selectedResultIndex > 0 THEN selectedResultIndex - 1 ELSE -1
    /\ lastEvent' = SearchEvent("ArrowUp")
    /\ UNCHANGED <<otherComponents, navVars, rankVars, mountState, scrollVars, isSearchFocused,
                   isSearchExpanded, fetchState, isMounted, focusTimers>>

\* an Enter that always selects the first result
KeyEnter_SelectsFirst ==
    /\ mountState = "mounted"
    /\ IF selectedResultIndex >= 0
       THEN \E elementTop \in ElementTops :
               LET result == searchResults[1]
                   calls == selectCalls(result, pathname, elementTop)
               IN /\ handleSearchSelect(result, calls)
                  /\ lastEvent' = Renewing(SelectEvent("Enter", result, calls), searchQuery # <<>>)
       ELSE /\ UNCHANGED <<rankVars, selectedResultIndex, isSearchFocused, navVars>>
            /\ lastEvent' = SearchEvent("Enter")
    /\ UNCHANGED <<otherComponents, mountState, scrollVars, isSearchExpanded, fetchState,
                   isMounted, focusTimers>>

\* handleSearchKeyDown, e.key === 'Enter': selects only when
\* selectedResultIndex >= 0, otherwise no branch of the chain is taken
KeyEnter ==
    /\ mountState = "mounted"
    /\ IF selectedResultIndex >= 0
       THEN \E elementTop \in ElementTops :
               LET result == searchResults[selectedResultIndex + 1]
                   calls == selectCalls(result, pathname, elementTop)
               IN /\ handleSearchSelect(result, calls)
                  /\ lastEvent' = Renewing(SelectEvent("Enter", result, calls), searchQuery # <<>>)
       ELSE /\ UNCHANGED <<rankVars, selectedResultIndex, isSearchFocused, navVars>>
            /\ lastEvent' = SearchEvent("Enter")
    /\ UNCHANGED <<otherComponents, mountState, scrollVars, isSearchExpanded, fetchState,
                   isMounted, focusTimers>>

\* an Escape that closes the search but keeps the query
KeyEscape_KeepsQuery ==
    /\ mountState = "mounted"
    /\ isSearchFocused' = FALSE
    /\ isSearchExpanded' = FALSE
    /\ RenderSearch(searchQuery, searchableItems, FALSE, selectedResultIndex)
    /\ lastEvent' = SearchEvent("Escape")
    /\ UNCHANGED <<otherComponents, navVars, mountState, scrollVars, fetchState, isMounted, focusTimers>>

\* handleSearchKeyDown, e.key === 'Escape'
KeyEscape ==
    /\ mountState = "mounted"
    /\ isSearchFocused' = FALSE
    /\ isSearchExpanded' = FALSE
    /\ RenderSearch(<<>>, searchableItems, searchQuery # <<>>, selectedResultIndex)
    /\ lastEvent' = Renewing(SearchEvent("Escape"), searchQuery # <<>>)
    /\ UNCHANGED <<otherComponents, navVars, mountState, scrollVars, fetchState, isMounted, focusTimers>>

\* the dropdown is rendered
DropdownShown ==
    isSearchExpanded /\ isSearchFocused /\ Len(searchResults) > 0

\* onMouseEnter of the result button at position index (0-based)
MouseEnterResult(index) ==
    /\ mountState = "mounted"
    /\ DropdownShown
    /\ index \in 0..(Len(searchResults) - 1)
    /\ selectedResultIndex' = index
    /\ lastEvent' = SearchEvent("mouseEnter")
    /\ UNCHANGED <<otherComponents, navVars, rankVars, mountState, scrollVars, isSearchFocused,
                   isSearchExpanded, fetchState, isMounted, focusTimers>>

\* onClick of the result button at position index (0-based)
ClickResult(index) ==
    /\ mountState = "mounted"
    /\ DropdownShown
    /\ index \in 0..(Len(searchResults) - 1)
    /\ \E elementTop \in ElementTops :
          LET result == searchResults[index + 1]
              calls == selectCalls(result, pathname, elementTop)
          IN /\ handleSearchSelect(result, calls)
             /\ lastEvent' = Renewing(SelectEvent("clickResult", result, calls), searchQuery # <<>>)
    /\ UNCHANGED <<otherComponents, mountState, scrollVars, isSearchExpanded, fetchState,
                   isMounted, focusTimers>>

\* the router changes the location by other means than a search selection
LocationChange(path) ==
    /\ mountState = "mounted"
    /\ path # pathname
    /\ pathname' = path
    /\ lastEvent' = SearchEvent("locationChange")
    /\ UNCHANGED <<otherComponents, rankVars, mountState, scrollVars, isSearchFocused,
                   isSearchExpanded, selectedResultIndex, fetchState, isMounted,
                   focusTimers, sessionFlag>>

\* handleClickOutside for a mousedown outside the search container
ClickOutside ==
    /\ mountState = "mounted"
    /\ isSearchFocused' = FALSE
    /\ isSearchExpanded' = FALSE
    /\ RenderSearch(<<>>, searchableItems, searchQuery # <<>>, selectedResultIndex)
    /\ lastEvent' = Renewing(SearchEvent("clickOutside"), searchQuery # <<>>)
    /\ UNCHANGED <<otherComponents, navVars, mountState, scrollVars, fetchState, isMounted, focusTimers>>

Init ==
    /\ searchQuery = <<>>
    /\ searchableItems = <<>>
    /\ scoredItems = <<>>
    /\ searchResults = <<>>
    /\ rankPc = "ranked"
    /\ TopBarConstructed
    /\ HookConstructed
    /\ GridConstructed

Next ==
    \/ \E y \in ScrollYs : Mount(y)
    \/ \E y \in ScrollYs : Scroll(y)
    \/ Tick
    \/ PhaseTimeout
    \/ Unmount
    \/ \E data \in TopBarCatalogs : FetchResolve(data)
    \/ FetchFail
    \/ SearchIconClick
    \/ FocusTimeout
    \/ FocusInput
    \/ \E q \in TopBarQueries : ChangeQuery(q)
    \/ KeyArrowDown
    \/ KeyArrowUp
    \/ KeyEnter
    \/ KeyEscape
    \/ \E i \in 0..(MaxResults - 1) : MouseEnterResult(i)
    \/ \E i \in 0..(MaxResults - 1) : ClickResult(i)
    \/ ClickOutside
    \/ \E path \in Pathnames : LocationChange(path)

Spec == Init /\ [][Next]_vars

\* The TopBar with the browser's guarantees: time passes while a timeout is
\* pending, and a timeout that is due has its callback run.
SpecFair == Init /\ [][Next]_vars /\ WF_vars(Tick) /\ WF_vars(PhaseTimeout)

----------------------------------------------------------------------------
(* Specification of the selection alone: handleSearchSelect applied to a
   result of an open dropdown, on each route, with and without the target
   element in the document *)

\* routes the application may be on when a result is selected
SelectPathnames ==
    { <<"/">>, <<"/","c","a","r","e","e","r","s">>, <<"/","c","o","n","t","a","c","t">> }

\* queries with results in SiteCatalog
SelectQueries == { <<"a">>, <<"p","a","y">>, <<"f","a","q">> }

\* sessionStorage 'scrollToSection' before the selection: absent, or left by
\* an earlier selection
SelectFlags == { <<>>, << <<"h","e","r","o">> >> }

\* the TopBar mounted, the catalog loaded, a query typed, the dropdown open
InitSelect ==
    /\ searchQuery \in SelectQueries
    /\ searchableItems = SiteCatalog
    /\ scoredItems = scoredItemsMemo(searchQuery, searchableItems)
    /\ searchResults = searchResultsMemo(searchQuery, searchableItems)
    /\ rankPc = "ranked"
    /\ mountState = "mounted"
    /\ isScrolled = FALSE
    /\ scrollPhase = "idle"
    /\ hasMountedRef = TRUE
    /\ phaseTimer = NoTimer
    /\ isSearchFocused = TRUE
    /\ isSearchExpanded = TRUE
    /\ selectedResultIndex \in -1..(Len(searchResults) - 1)
    /\ fetchState = "applied"
    /\ isMounted = TRUE
    /\ focusTimers = 0
    /\ pathname \in SelectPathnames
    /\ sessionFlag \in SelectFlags
    /\ lastEvent = NoEvent
    /\ HookConstructed
    /\ GridConstructed

NextSelect ==
    \/ KeyEnter
    \/ \E i \in 0..(MaxResults - 1) : ClickResult(i)

SpecSelect == InitSelect /\ [][NextSelect]_vars

----------------------------------------------------------------------------
(* useScrollToSection: the scroll handler *)

ScrollLookahead == 150
TopOfPage == 50

trackedSections == <<"operator-portal", "mobile-app">>

\* offsetTop values an element of a tracked section may have
SectionOffsets == {0, 800, 1600}

\* documents: each tracked section has no element (<<>>) or one at an offset
Documents ==
    [ {"operator-portal", "mobile-app"} -> ({<<>>} \cup { <<o>> : o \in SectionOffsets }) ]

\* window.scrollY values at which a scroll event is handled
HookScrollYs == {0, 10, 49, 50, 649, 650, 900, 1449, 1450, 1700}

\* a map that gives an absent element the offset 0 instead of dropping it
presentSections_KeepsAbsent(document) ==
    [i \in 1..Len(trackedSections) |->
        [section |-> trackedSections[i],
         offsetTop |-> IF document[trackedSections[i]] = <<>>
                       THEN 0
                       ELSE document[trackedSections[i]][1]]]

\* .map(section => element ? { section, offsetTop } : null).filter(item => !!item)
presentSections(document) ==
    LET mapped == [i \in 1..Len(trackedSections) |->
                      IF document[trackedSections[i]] = <<>>
                      THEN <<>>
                      ELSE << [section |-> trackedSections[i],
                               offsetTop |-> document[trackedSections[i]][1]] >>]
        isItem(item) == item # <<>>
        kept == SelectSeq(mapped, isItem)
    IN [i \in 1..Len(kept) |-> kept[i][1]]

\* .sort((a, b) => a.offsetTop - b.offsetTop), a stable sort
RECURSIVE insertByOffset(_, _)
insertByOffset(sorted, x) ==
    IF sorted = <<>> THEN <<x>>
    ELSE IF Head(sorted).offsetTop - x.offsetTop <= 0
         THEN <<Head(sorted)>> \o insertByOffset(Tail(sorted), x)
         ELSE <<x>> \o sorted

RECURSIVE sortByOffset(_)
sortByOffset(items) ==
    IF items = <<>> THEN <<>>
    ELSE insertByOffset(sortByOffset(SubSeq(items, 1, Len(items) - 1)),
                        items[Len(items)])

\* let currentSection = 'home'; orderedSections.forEach(...)
RECURSIVE walkSections(_, _, _)
walkSections(orderedSections, scrollPosition, currentSection) ==
    IF orderedSections = <<>> THEN currentSection
    ELSE walkSections(Tail(orderedSections), scrollPosition,
                      IF Head(orderedSections).offsetTop <= scrollPosition
                      THEN Head(orderedSections).section
                      ELSE currentSection)

\* a handler without the top-of-page override
resolveActiveSection_NoOverride(document, y) ==
    walkSections(sortByOffset(presentSections(document)), y + ScrollLookahead, "home")

\* the value activeSection has after handleScroll ran with window.scrollY = y:
\* setActiveSection(currentSection), then setActiveSection('home') if y < 50
resolveActiveSection(document, y) ==
    LET scrollPosition == y + ScrollLookahead
        orderedSections == sortByOffset(presentSections(document))
        currentSection == walkSections(orderedSections, scrollPosition, "home")
    IN IF y < TopOfPage THEN "home" ELSE currentSection

InitHook ==
    /\ activeSection = "home"
    /\ sectionOffsets \in Documents
    /\ hookScrollY = <<>>
    /\ searchQuery = <<>>
    /\ searchableItems = <<>>
    /\ scoredItems = <<>>
    /\ searchResults = <<>>
    /\ rankPc = "ranked"
    /\ TopBarConstructed
    /\ GridConstructed
    /\ hookEvent = NoHookEvent

\* the window 'scroll' listener
handleScroll(y) ==
    /\ activeSection' = resolveActiveSection(sectionOffsets, y)
    /\ hookScrollY' = <<y>>
    /\ hookEvent' = [name |-> "scroll", id |-> "", scroll |-> <<>>]
    /\ UNCHANGED <<sectionOffsets, rankVars, topBarVars, gridVars>>

\* const offsetTop = element.offsetTop - 100
ScrollToSectionOffset == 100

\* ids scrollToSection may be called with: 'home', the tracked sections, and
\* an id no element of the document has
ScrollTargets == {"home", "operator-portal", "mobile-app", "setup"}

\* document.getElementById(sectionId)?.offsetTop, <<>> if there is no element
elementOffsetTop(document, sectionId) ==
    IF sectionId \in DOMAIN document THEN document[sectionId] ELSE <<>>

\* a scrollToSection that scrolls to the element's own offset
scrollRequest_NoOffset(document, sectionId) ==
    IF sectionId = "home"
    THEN << [top |-> 0, behavior |-> "smooth"] >>
    ELSE IF elementOffsetTop(document, sectionId) # <<>>
         THEN << [top |-> elementOffsetTop(document, sectionId)[1], behavior |-> "smooth"] >>
         ELSE <<>>

\* the window.scrollTo call scrollToSection makes, if any
scrollRequest(document, sectionId) ==
    IF sectionId = "home"
    THEN << [top |-> 0, behavior |-> "smooth"] >>
    ELSE IF elementOffsetTop(document, sectionId) # <<>>
         THEN << [top |-> elementOffsetTop(document, sectionId)[1] - ScrollToSectionOffset,
                  behavior |-> "smooth"] >>
         ELSE <<>>

\* scrollToSection(sectionId)
scrollToSection(sectionId) ==
    /\ hookEvent' = [name |-> "scrollToSection", id |-> sectionId,
                     scroll |-> scrollRequest(sectionOffsets, sectionId)]
    /\ UNCHANGED <<activeSection, sectionOffsets, hookScrollY, rankVars, topBarVars, gridVars>>

NextHook ==
    \/ \E y \in HookScrollYs : handleScroll(y)
    \/ \E sectionId \in ScrollTargets : scrollToSection(sectionId)

SpecHook == InitHook /\ [][NextHook]_vars

----------------------------------------------------------------------------
(* FeatureGrid *)

COLS == 10
ROWS == 6

\* the centre block kept for the large features
CenterFirstCol == 4
CenterLastCol == 7
CenterFirstRow == 2
CenterLastRow == 5

\* largest feature lists drawn
MaxSmallFeatures == 45
MaxLargeFeatures == 5

\* the cells of the grid in the order of the two nested loops
AllCells ==
    [k \in 1..(ROWS * COLS) |-> [row |-> ((k - 1) \div COLS) + 1, col |-> ((k - 1) % COLS) + 1]]

\* a loop that keeps the cells of the centre rows left and right of the block
\* but skips the block's columns in every row
outsideCenter_ColumnsOnly(pos) ==
    ~(pos.col >= CenterFirstCol /\ pos.col <= CenterLastCol)

\* !(inCenterCols && inCenterRows)
outsideCenter(pos) ==
    LET inCenterCols == pos.col >= CenterFirstCol /\ pos.col <= CenterLastCol
        inCenterRows == pos.row >= CenterFirstRow /\ pos.row <= CenterLastRow
    IN ~(inCenterCols /\ inCenterRows)

smallPositions == SelectSeq(AllCells, outsideCenter)

\* top-left cell of each 2x2 block
largePositions ==
    << [col |-> 4, row |-> 2], [col |-> 6, row |-> 2],
       [col |-> 4, row |-> 4], [col |-> 6, row |-> 4] >>

\* the span of a large cell
LargeSpan == 2

\* a FeaturesData document with ns small and nl large features; a feature
\* stands for its position in the document
FeaturesData(ns, nl) ==
    [smallFeatures |-> [i \in 1..ns |-> i], largeFeatures |-> [i \in 1..nl |-> i]]

SmallCounts == {0, 1, 43, 44, MaxSmallFeatures}
LargeCounts == {0, 1, 4, MaxLargeFeatures}

GridDocuments == { FeaturesData(ns, nl) : ns \in SmallCounts, nl \in LargeCounts }

\* the elements a .map() callback returned, the nulls left out
RECURSIVE dropNulls(_)
dropNulls(mapped) ==
    IF mapped = <<>> THEN <<>> ELSE Head(mapped) \o dropNulls(Tail(mapped))

\* smallPositions.map((pos, index) => ...): index is 0-based as in the source
renderSmall(smallFeatures) ==
    dropNulls([i \in 1..Len(smallPositions) |->
                 IF i > Len(smallFeatures)
                 THEN <<>>
                 ELSE << [index |-> i - 1, feature |-> smallFeatures[i],
                          col |-> smallPositions[i].col, row |-> smallPositions[i].row] >>])

\* features.largeFeatures.map((feature, index) => ...)
renderLarge(largeFeatures, flipped) ==
    dropNulls([i \in 1..Len(largeFeatures) |->
                 IF i > Len(largePositions)
                 THEN <<>>
                 ELSE << [index |-> i - 1, feature |-> largeFeatures[i],
                          col |-> largePositions[i].col, row |-> largePositions[i].row,
                          span |-> LargeSpan, flipped |-> (i - 1) \in flipped] >>])

\* the component's return value: <<>> for null
renderGrid(loading, feats, flipped) ==
    IF loading \/ feats = <<>>
    THEN <<>>
    ELSE << [small |-> renderSmall(feats[1].smallFeatures),
             large |-> renderLarge(feats[1].largeFeatures, flipped)] >>

GridEvent(name, calls) ==
    [name |-> name, calls |-> calls, mounted |-> gridMountState = "mounted"]

gridFrame == <<rankVars, topBarVars, hookVars>>

\* the mount effect: loadFeatures() starts the fetch
GridMount ==
    /\ gridMountState = "constructed"
    /\ gridMountState' = "mounted"
    /\ gridFetchState' = "pending"
    /\ gridEvent' = GridEvent("mount", <<>>)
    /\ UNCHANGED <<features, isLoading, flippedCards, gridView, gridFrame>>

\* teardown: the effect has no cleanup; React drops the component's state
\* updates from here on
GridUnmount ==
    /\ gridMountState = "mounted"
    /\ gridMountState' = "unmounted"
    /\ gridView' = <<>>
    /\ gridEvent' = GridEvent("unmount", <<>>)
    /\ UNCHANGED <<features, isLoading, flippedCards, gridFetchState, gridFrame>>

\* loadFeatures: the response is ok and its JSON is data; try, then finally
GridFetchResolve(data) ==
    /\ gridFetchState = "pending"
    /\ gridFetchState' = "resolved"
    /\ gridEvent' = GridEvent("fetchResolve", <<"setFeatures", "setIsLoading">>)
    /\ IF gridMountState = "mounted"
       THEN /\ features' = <<data>>
            /\ isLoading' = FALSE
            /\ gridView' = renderGrid(FALSE, <<data>>, flippedCards)
       ELSE UNCHANGED <<features, isLoading, gridView>>
    /\ UNCHANGED <<gridMountState, flippedCards, gridFrame>>

\* a load without the finally block
GridFetchFail_NoFinally ==
    /\ gridFetchState = "pending"
    /\ gridFetchState' = "failed"
    /\ gridEvent' = GridEvent("fetchFail", <<"console.error">>)
    /\ UNCHANGED <<features, isLoading, gridView>>
    /\ UNCHANGED <<gridMountState, flippedCards, gridFrame>>

\* loadFeatures: fetch rejects or the status is not ok; catch, then finally
GridFetchFail ==
    /\ gridFetchState = "pending"
    /\ gridFetchState' = "failed"
    /\ gridEvent' = GridEvent("fetchFail", <<"console.error", "setIsLoading">>)
    /\ IF gridMountState = "mounted"
       THEN /\ isLoading' = FALSE
            /\ gridView' = renderGrid(FALSE, features, flippedCards)
            /\ UNCHANGED features
       ELSE UNCHANGED <<features, isLoading, gridView>>
    /\ UNCHANGED <<gridMountState, flippedCards, gridFrame>>

\* handleLargeFeatureHover(index, isHovering), from onMouseEnter / onMouseLeave
\* of the rendered large cell index
HoverLarge(index, isHovering) ==
    /\ gridMountState = "mounted"
    /\ gridView # <<>>
    /\ \E i \in 1..Len(gridView[1].large) : gridView[1].large[i].index = index
    /\ flippedCards' = IF isHovering THEN flippedCards \cup {index} ELSE flippedCards \ {index}
    /\ gridView' = renderGrid(isLoading, features, flippedCards')
    /\ gridEvent' = GridEvent("hover", <<"setFlippedCards">>)
    /\ UNCHANGED <<gridMountState, features, isLoading, gridFetchState, gridFrame>>

InitGrid ==
    /\ searchQuery = <<>>
    /\ searchableItems = <<>>
    /\ scoredItems = <<>>
    /\ searchResults = <<>>
    /\ rankPc = "ranked"
    /\ TopBarConstructed
    /\ HookConstructed
    /\ GridConstructed

NextGrid ==
    \/ GridMount
    \/ GridUnmount
    \/ \E data \in GridDocuments : GridFetchResolve(data)
    \/ GridFetchFail
    \/ \E index \in 0..(Len(largePositions) - 1), isHovering \in BOOLEAN :
          HoverLarge(index, isHovering)

SpecGrid == InitGrid /\ [][NextGrid]_vars

----------------------------------------------------------------------------
(* Claims *)

\* the score the memo gave to a result entry
ScoreOf(entry) ==
    LET i == CHOOSE i \in 1..Len(scoredItems) : scoredItems[i].item = entry
    IN scoredItems[i].score

IsRanked(entry) == \E i \in 1..Len(searchResults) : searchResults[i] = entry

\* C1: the ranked result list has at most 8 entries, and every entry in it
\* has a non-zero score for the query.
C1_AtMostEightNonZero ==
    rankPc = "ranked" =>
        /\ Len(searchResults) <= 8
        /\ \A i \in 1..Len(searchResults) :
              /\ \E j \in 1..Len(searchableItems) : searchableItems[j] = searchResults[i]
              /\ matchScore(searchResults[i], toLowerCase(searchQuery)) # 0
              /\ ScoreOf(searchResults[i]) # 0

\* more than 8 entries matched and the list was cut to 8
C1_Witness ==
    /\ rankPc = "ranked"
    /\ Len(searchResults) = 8
    /\ Len(filterScored(scoredItems)) > 8

\* position of a catalog entry in the ranked list, 0 when it is not in it
PositionOf(entry) ==
    IF IsRanked(entry)
    THEN CHOOSE i \in 1..Len(searchResults) : searchResults[i] = entry
    ELSE 0

\* B is never shown ahead of A, nor shown without A
RankedBefore(A, B) ==
    IsRanked(B) => (IsRanked(A) /\ PositionOf(A) < PositionOf(B))

LabelEquals(entry, query) == toLowerCase(entry.label) = toLowerCase(query)

LabelMatches(entry, query) == includes(toLowerCase(entry.label), toLowerCase(query))

LabelMatchesPartially(entry, query) ==
    LabelMatches(entry, query) /\ ~LabelEquals(entry, query)

KeywordMatches(entry, query) ==
    \E k \in 1..Len(entry.keywords) :
        includes(toLowerCase(entry.keywords[k]), toLowerCase(query))

KeywordOnly(entry, query) == KeywordMatches(entry, query) /\ ~LabelMatches(entry, query)

\* C2: whatever the priorities, an entry whose label equals the query is
\* ranked before an entry whose label matches only partially, and an entry
\* matching on its label is ranked before an entry matching only by keyword.
C2_TiersOutrankPriority ==
    (rankPc = "ranked" /\ trim(searchQuery) # <<>>) =>
        \A i, j \in 1..Len(searchableItems) :
            LET A == searchableItems[i]
                B == searchableItems[j]
            IN /\ (LabelEquals(A, searchQuery) /\ LabelMatchesPartially(B, searchQuery))
                     => RankedBefore(A, B)
               /\ (LabelMatches(A, searchQuery) /\ KeywordOnly(B, searchQuery))
                     => RankedBefore(A, B)

\* the combined score as the ranking contract states it: match score plus
\* the priority, 50 standing in only for a priority that is not set
StatedCombinedScore(entry, query) ==
    matchScore(entry, toLowerCase(query))
        + (IF entry.priority = <<>> THEN 50 ELSE entry.priority[1])

\* catalog positions of the matching entries
MatchingPositions ==
    { j \in 1..Len(searchableItems) :
        matchScore(searchableItems[j], toLowerCase(searchQuery)) > 0 }

\* number of matching entries that a descending stable sort puts before j
StatedRank(j) ==
    Cardinality({ k \in MatchingPositions :
        LET sk == StatedCombinedScore(searchableItems[k], searchQuery)
            sj == StatedCombinedScore(searchableItems[j], searchQuery)
        IN sk > sj \/ (sk = sj /\ k < j) })

\* C3: the ranked list is exactly the first 8 of the matching entries sorted
\* by descending combined score (match score plus priority), entries of equal
\* combined score keeping their catalog order.
C3_TopEightStableSorted ==
    (rankPc = "ranked" /\ trim(searchQuery) # <<>>) =>
        /\ Len(searchResults) =
              (IF Cardinality(MatchingPositions) < 8
               THEN Cardinality(MatchingPositions) ELSE 8)
        /\ \A j \in MatchingPositions :
              StatedRank(j) < 8 =>
                  /\ StatedRank(j) + 1 <= Len(searchResults)
                  /\ searchResults[StatedRank(j) + 1] = searchableItems[j]

IsPayNow(entry) ==
    entry.label = <<"P","a","y"," ","N","o","w">> /\ entry.priority = <<90>>

IsEasySetup(entry) ==
    /\ entry.label = <<"E","a","s","y"," ","S","e","t","u","p">>
    /\ entry.keywords = << <<"p","a","y">> >>
    /\ entry.priority = <<50>>

PayExample(easySetupScore) ==
    (rankPc = "ranked" /\ searchQuery = <<"p","a","y">>) =>
        \A i, j \in 1..Len(searchableItems) :
            LET A == searchableItems[i]
                B == searchableItems[j]
            IN (IsPayNow(A) /\ IsEasySetup(B)) =>
                  /\ IsRanked(A) /\ IsRanked(B)
                  /\ PositionOf(A) < PositionOf(B)
                  /\ ScoreOf(A) = 590
                  /\ ScoreOf(B) = easySetupScore

\* C10 as stated: for the query "pay", "Pay Now" (priority 90) is ranked first
\* with combined score 590 and "Easy Setup" (keyword "pay", priority 50) after
\* it with combined score 150.
C10_PayExampleAsStated == PayExample(150)

\* C10 amended: "Pay Now" is ranked first with 590 and "Easy Setup" after it
\* with 250, its keyword "pay" being equal to the query (200 + 50).
C10_PayExample == PayExample(250)

C10_Witness ==
    /\ rankPc = "ranked"
    /\ searchQuery = <<"p","a","y">>
    /\ Len(searchResults) = 2
    /\ IsPayNow(searchResults[1])
    /\ IsEasySetup(searchResults[2])

\* C4: in every reachable state of the TopBar, selectedResultIndex is -1 or
\* a valid index into the current ranked result list.
C4_SelectionInRange ==
    \/ selectedResultIndex = -1
    \/ (0 <= selectedResultIndex /\ selectedResultIndex <= Len(searchResults) - 1)

\* a query edit left a shorter, non-empty list than the index selected before
C4_Witness ==
    /\ lastEvent.name = "change"
    /\ lastEvent.index > 0
    /\ Len(searchResults) > 0
    /\ Len(searchResults) <= lastEvent.index
    /\ selectedResultIndex = -1

\* C5: ArrowDown at the last index leaves the index unchanged, ArrowUp at -1
\* leaves it at -1, neither key wraps around, and ArrowDown on an empty list
\* leaves the index at -1.
C5_ArrowsSaturate ==
    /\ lastEvent.name = "ArrowDown" =>
          /\ lastEvent.index = Len(searchResults) - 1
                => selectedResultIndex = lastEvent.index
          /\ Len(searchResults) = 0 => selectedResultIndex = -1
          /\ selectedResultIndex \in {lastEvent.index, lastEvent.index + 1}
    /\ lastEvent.name = "ArrowUp" =>
          /\ lastEvent.index = -1 => selectedResultIndex = -1
          /\ selectedResultIndex \in {lastEvent.index, lastEvent.index - 1}

\* ArrowDown was pressed on the last of 8 results
C5_Witness ==
    /\ lastEvent.name = "ArrowDown"
    /\ Len(searchResults) = 8
    /\ lastEvent.index = 7
    /\ selectedResultIndex = 7

\* C7: on initial mount the scroll phase stays 'idle', also when the page is
\* already scrolled past the 100px threshold at mount time.
C7_NoPhaseChangeOnMount ==
    lastEvent.name = "mount" => (scrollPhase = "idle" /\ phaseTimer = NoTimer)

\* C8 as stated: the phase reverts to 'idle' when the delay started by the
\* crossing elapses, and a scroll event before that, crossing the threshold
\* again or not, neither changes the phase nor postpones the revert.
C8_OneShotAsStated ==
    /\ lastEvent.name = "phaseTimeout" => scrollPhase = "idle"
    /\ (lastEvent.name = "scroll" /\ lastEvent.phase # "idle") =>
          (scrollPhase = lastEvent.phase /\ phaseTimer = lastEvent.timer)

\* C8 amended: while the TopBar is mounted a non-idle phase always has its
\* timeout pending, and the phase reverts to 'idle' when that timeout fires;
\* a scroll event that does not cross the threshold neither changes the phase
\* nor postpones the revert, whereas crossing the threshold again cancels the
\* pending timeout, sets the opposite phase and starts a new 450ms delay.
C8_OneShot ==
    /\ (mountState = "mounted" /\ scrollPhase # "idle") =>
          (0 <= phaseTimer /\ phaseTimer <= 450)
    /\ lastEvent.name = "phaseTimeout" =>
          (scrollPhase = "idle" /\ phaseTimer = NoTimer
             /\ lastEvent.timer = 0 /\ lastEvent.phase # "idle")
    /\ (lastEvent.name = "scroll" /\ lastEvent.scrolled = isScrolled) =>
          (scrollPhase = lastEvent.phase /\ phaseTimer = lastEvent.timer)
    /\ (lastEvent.name = "scroll" /\ lastEvent.scrolled # isScrolled) =>
          (scrollPhase # "idle" /\ scrollPhase # lastEvent.phase /\ phaseTimer = 450)

\* the threshold was crossed again while the reset of 'hide' was pending
C8_Witness ==
    /\ lastEvent.name = "scroll"
    /\ lastEvent.phase = "hide"
    /\ lastEvent.timer > 0 /\ lastEvent.timer < 450
    /\ scrollPhase = "show"
    /\ phaseTimer = 450

\* C9: after mount, a scroll event crossing the 100px threshold downward sets
\* the phase to 'hide', one crossing it upward sets it to 'show', and one not
\* crossing it leaves the phase unchanged.
C9_CrossingSetsPhase ==
    lastEvent.name = "scroll" =>
        /\ isScrolled = (lastEvent.scrollY > 100)
        /\ (~lastEvent.scrolled /\ isScrolled) => scrollPhase = "hide"
        /\ (lastEvent.scrolled /\ ~isScrolled) => scrollPhase = "show"
        /\ (lastEvent.scrolled = isScrolled) => scrollPhase = lastEvent.phase

\* an upward crossing after the phase had gone back to idle
C9_Witness ==
    /\ lastEvent.name = "scroll"
    /\ lastEvent.scrolled /\ ~isScrolled
    /\ lastEvent.phase = "idle"
    /\ scrollPhase = "show"

\* the tracked sections that have an element at or above the position
QualifyingSections(position) ==
    { section \in {"operator-portal", "mobile-app"} :
        /\ sectionOffsets[section] # <<>>
        /\ sectionOffsets[section][1] <= position }

\* C6: after a scroll event, activeSection is 'home' if scrollY < 50;
\* otherwise it is the present tracked section with the greatest top offset
\* that is <= scrollY + 150, or 'home' if there is none. With offsets
\* {operator-portal: 800, mobile-app: 1600}, scrollY 900 gives
\* operator-portal, 1700 gives mobile-app and 10 gives home.
C6_ActiveSectionResolved ==
    hookScrollY # <<>> =>
        LET y == hookScrollY[1]
            qualifying == QualifyingSections(y + 150)
        IN /\ y < 50 => activeSection = "home"
           /\ (y >= 50 /\ qualifying = {}) => activeSection = "home"
           /\ (y >= 50 /\ qualifying # {}) =>
                 /\ activeSection \in qualifying
                 /\ \A other \in qualifying :
                       sectionOffsets[other][1] <= sectionOffsets[activeSection][1]
           /\ ( /\ sectionOffsets["operator-portal"] = <<800>>
                /\ sectionOffsets["mobile-app"] = <<1600>> ) =>
                 /\ y = 900 => activeSection = "operator-portal"
                 /\ y = 1700 => activeSection = "mobile-app"
                 /\ y = 10 => activeSection = "home"

\* a tracked section starts at offset 0 and the page is scrolled by 10px
C6_Witness ==
    /\ hookScrollY = <<10>>
    /\ sectionOffsets["operator-portal"] = <<0>>
    /\ activeSection = "home"

\* the match score as the scoring table states it: the first case that
\* applies, label cases before keyword cases, on lower-cased text
StatedMatchScore(entry, query) ==
    LET q == toLowerCase(query)
        label == toLowerCase(entry.label)
        keywords == { toLowerCase(entry.keywords[k]) : k \in 1..Len(entry.keywords) }
    IN CASE label = q -> 1000
         [] label # q /\ startsWith(label, q) -> 500
         [] ~startsWith(label, q) /\ includes(label, q) -> 300
         [] ~includes(label, q) /\ q \in keywords -> 200
         [] ~includes(label, q) /\ q \notin keywords
               /\ (\E k \in keywords : startsWith(k, q)) -> 150
         [] ~includes(label, q) /\ (\A k \in keywords : ~startsWith(k, q))
               /\ (\E k \in keywords : includes(k, q)) -> 100
         [] OTHER -> 0

\* C11: the base match score of every entry is the first matching case of
\* the table (1000, 500, 300 on the label, then 200, 150, 100 on the
\* keywords, else 0); keywords are consulted only when the label did not
\* match, so an entry matching by label and keyword gets the label score.
C11_MatchScoreTable ==
    (rankPc = "ranked" /\ trim(searchQuery) # <<>>) =>
        /\ Len(scoredItems) = Len(searchableItems)
        /\ \A i \in 1..Len(scoredItems) :
              LET entry == searchableItems[i]
                  stated == StatedMatchScore(entry, searchQuery)
              IN /\ scoredItems[i].item = entry
                 /\ stated = 0 => scoredItems[i].score = 0
                 /\ stated > 0 =>
                       scoredItems[i].score - priorityOrDefault(entry) = stated
                 /\ LabelMatches(entry, searchQuery) => stated >= 300

\* an entry matched by its label (contains) and by a keyword equal to the
\* query, scored on the label branch
C11_Witness ==
    /\ rankPc = "ranked"
    /\ \E i \in 1..Len(scoredItems) :
          /\ LabelMatchesPartially(scoredItems[i].item, searchQuery)
          /\ \E k \in 1..Len(scoredItems[i].item.keywords) :
                toLowerCase(scoredItems[i].item.keywords[k]) = toLowerCase(searchQuery)
          /\ scoredItems[i].item.priority = <<>>
          /\ scoredItems[i].score = 350

\* C12: every entry with match score > 0 gets the match score plus its
\* priority, 50 being used only when no priority is set; a priority set
\* explicitly, 0 included, is added as given.
C12_PriorityAddedAsGiven ==
    (rankPc = "ranked" /\ trim(searchQuery) # <<>>) =>
        \A i \in 1..Len(scoredItems) :
            LET entry == scoredItems[i].item
                base == matchScore(entry, toLowerCase(searchQuery))
            IN base > 0 =>
                  scoredItems[i].score =
                      base + (IF entry.priority = <<>> THEN 50 ELSE entry.priority[1])

\* C13: a query that is empty or only whitespace yields an empty list.
C13_BlankQueryNoResults ==
    (rankPc = "ranked" /\ \A i \in 1..Len(searchQuery) : searchQuery[i] = " ") =>
        searchResults = <<>>

\* a whitespace query against a catalog with a label containing a space
C13_Witness ==
    /\ rankPc = "ranked"
    /\ searchQuery = <<" ">>
    /\ searchableItems \in PayCatalogs
    /\ searchResults = <<>>

\* C14: whenever a render produces a new searchResults array (the query
\* changed, or the catalog finished loading), selectedResultIndex is -1 when
\* the handler and its effects have run, before any further event, also when
\* the new list has the same contents as the old one.
C14_SelectionResetOnNewResults ==
    /\ lastEvent.renewed => selectedResultIndex = -1
    /\ lastEvent.name = "change" => lastEvent.renewed
    /\ (lastEvent.name = "fetchResolve" /\ fetchState = "applied") => lastEvent.renewed

\* the fourth of four results was selected when the query went from "a" to
\* "A", which ranks the same four entries in the same order
C14_Witness ==
    /\ lastEvent.name = "change"
    /\ lastEvent.index = 3
    /\ searchQuery = <<"A">>
    /\ Len(searchResults) = 4
    /\ searchResults = searchResultsMemo(<<"a">>, searchableItems)
    /\ selectedResultIndex = -1

\* every variable of the TopBar and of the other components, the history aside
C15_State ==
    <<rankVars, mountState, scrollVars, isSearchFocused, isSearchExpanded,
      selectedResultIndex, fetchState, isMounted, focusTimers, navVars, hookVars,
      gridVars>>

\* C15: Enter with selectedResultIndex = -1 selects nothing and changes no
\* state; Enter with selectedResultIndex >= 0 passes exactly
\* searchResults[selectedResultIndex] to handleSearchSelect, and in every
\* reachable state that index names an entry of the current list.
C15_EnterCommitsSelected ==
    /\ [](selectedResultIndex >= 0 => selectedResultIndex < Len(searchResults))
    /\ [][lastEvent'.name = "Enter" =>
            IF selectedResultIndex = -1
            THEN /\ UNCHANGED C15_State
                 /\ lastEvent'.selected = <<>>
                 /\ lastEvent'.calls = <<>>
            ELSE /\ selectedResultIndex + 1 \in 1..Len(searchResults)
                 /\ lastEvent'.selected = <<searchResults[selectedResultIndex + 1]>>]_vars

\* Enter was pressed on a result other than the first
C15_Witness ==
    /\ lastEvent.name = "Enter"
    /\ lastEvent.index > 0
    /\ lastEvent.selected # <<>>

\* C16: after Escape is pressed in the search input, from any reachable
\* state, the query is empty, isSearchFocused and isSearchExpanded are false
\* and selectedResultIndex is -1.
C16_EscapeResets ==
    lastEvent.name = "Escape" =>
        /\ searchQuery = <<>>
        /\ ~isSearchFocused
        /\ ~isSearchExpanded
        /\ selectedResultIndex = -1

\* Escape was pressed with a query typed and a result selected
C16_Witness ==
    /\ lastEvent.name = "Escape"
    /\ lastEvent.renewed
    /\ lastEvent.index > 0
    /\ searchQuery = <<>>

\* C17: if the TopBar is torn down before the catalog fetch resolves, the
\* fetched result is discarded: in every interleaving of unmount and fetch
\* resolution, searchableItems is never set after teardown.
C17_FetchDiscardedAfterTeardown ==
    /\ [](fetchState = "discarded" => searchableItems = <<>>)
    /\ [][mountState = "unmounted" => searchableItems' = searchableItems]_vars

\* the fetch resolved with data after the unmount
C17_Witness ==
    /\ mountState = "unmounted"
    /\ lastEvent.name = "fetchResolve"
    /\ fetchState = "discarded"
    /\ searchableItems = <<>>

\* C18 as stated: every pending delayed action of the TopBar (the 450ms phase
\* reset and the 100ms deferred focus call) is cancelled on teardown, so none
\* is pending and none fires once the component has unmounted.
C18_TimersCancelledOnTeardown ==
    mountState = "unmounted" =>
        /\ phaseTimer = NoTimer
        /\ focusTimers = 0
        /\ lastEvent.name \notin {"phaseTimeout", "focusTimeout"}

\* every variable but the history and the progress of the fetch itself
C19_State ==
    <<rankVars, mountState, scrollVars, isSearchFocused, isSearchExpanded,
      selectedResultIndex, isMounted, focusTimers, navVars, hookVars, gridVars>>

\* C19: if the catalog fetch fails, the failure is caught (fetchState
\* "failed"), the catalog stays empty, the failing step changes no other
\* state, and every query after it yields an empty result list.
C19_FetchFailureLeavesCatalogEmpty ==
    /\ [](fetchState = "failed" => (searchableItems = <<>> /\ searchResults = <<>>))
    /\ [][lastEvent'.name = "fetchFail" =>
            (fetchState' = "failed" /\ UNCHANGED C19_State)]_vars

\* a query typed after the fetch had failed
C19_Witness ==
    /\ fetchState = "failed"
    /\ lastEvent.name = "change"
    /\ searchQuery = <<"a">>
    /\ searchResults = <<>>

\* C20: selecting a result whose path starts with 'http' calls window.open on
\* that path and nothing else: no navigate, no scroll, no session flag, the
\* route and the flag stay as they were; selecting any other result never
\* calls window.open.
C20_ExternalOpensOnly ==
    [][lastEvent'.selected # <<>> =>
         LET result == lastEvent'.selected[1]
         IN  IF startsWith(result.path, HttpPrefix)
             THEN /\ lastEvent'.calls = << [op |-> "window.open", arg |-> result.path] >>
                  /\ UNCHANGED navVars
             ELSE CallsOf(lastEvent'.calls, "window.open") = <<>>]_vars

\* "Pay Now", an https link, was selected on a page other than home
C20_Witness ==
    /\ lastEvent.selected # <<>>
    /\ IsPayNow(lastEvent.selected[1])
    /\ lastEvent.calls # <<>>
    /\ pathname # <<"/">>

\* the selection passed a result with a section anchor whose page is not
\* the current one, and the router went to that page
LeavesForSection(result, from, to) ==
    /\ ~startsWith(result.path, HttpPrefix)
    /\ result.section # <<>>
    /\ result.path # from
    /\ to = result.path

\* C21: the session flag 'scrollToSection' is written exactly when selecting
\* a result makes the app leave the current page for the page of the
\* result's target section, the value written is that result's section id,
\* and every other selection leaves the flag unchanged.
C21_FlagWrittenOnLeave ==
    [][lastEvent'.selected # <<>> =>
         LET result == lastEvent'.selected[1]
             written == CallsOf(lastEvent'.calls, "sessionStorage.setItem")
         IN  /\ (written # <<>>) <=> LeavesForSection(result, pathname, pathname')
             /\ written # <<>> => (Len(written) = 1 /\ written[1].arg = result.section
                                     /\ sessionFlag' = <<result.section>>)
             /\ written = <<>> => sessionFlag' = sessionFlag]_vars

\* C29: selecting an internal section/content result with a section anchor
\* scrolls the current page only when the current page is the result's own
\* path; when the result's path differs from the current page the selection
\* navigates to the result's path and does not scroll the current page.
C29_ScrollOnlyOnOwnPage ==
    [][lastEvent'.selected # <<>> =>
         LET result == lastEvent'.selected[1]
             calls == lastEvent'.calls
         IN  (/\ ~startsWith(result.path, HttpPrefix)
              /\ result.type \in {"section", "content"}
              /\ result.section # <<>>) =>
                 /\ CallsOf(calls, "window.scrollTo") # <<>> => pathname = result.path
                 /\ pathname # result.path =>
                       /\ CallsOf(calls, "navigate") = << [op |-> "navigate", arg |-> result.path] >>
                       /\ CallsOf(calls, "window.scrollTo") = <<>>]_vars

\* C24: scrollToSection('home') requests a smooth scroll to top 0;
\* scrollToSection(id) for another id whose element exists requests a smooth
\* scroll to the element's top offset minus 100; with no such element it
\* requests no scroll; and it never changes activeSection.
C24_ScrollToSection ==
    [][hookEvent'.name = "scrollToSection" =>
         LET id == hookEvent'.id
             present == id \in DOMAIN sectionOffsets /\ sectionOffsets[id] # <<>>
         IN  /\ id = "home" =>
                   hookEvent'.scroll = << [top |-> 0, behavior |-> "smooth"] >>
             /\ (id # "home" /\ present) =>
                   hookEvent'.scroll = << [top |-> sectionOffsets[id][1] - 100,
                                           behavior |-> "smooth"] >>
             /\ (id # "home" /\ ~present) => hookEvent'.scroll = <<>>
             /\ activeSection' = activeSection]_vars

\* scrollToSection was called for a section at offset 800 while
\* 'operator-portal' was the active section
C24_Witness ==
    /\ hookEvent.name = "scrollToSection"
    /\ hookEvent.id = "mobile-app"
    /\ hookEvent.scroll = << [top |-> 700, behavior |-> "smooth"] >>
    /\ activeSection = "operator-portal"

\* C25: for every subset of the tracked sections present in the document,
\* the scroll handler sets activeSection to 'home' or to a present tracked
\* section, never to an absent one; activeSection is always one of home,
\* operator-portal, mobile-app.
C25_ActiveSectionPresent ==
    /\ activeSection \in {"home", "operator-portal", "mobile-app"}
    /\ activeSection # "home" => sectionOffsets[activeSection] # <<>>

\* a scroll past every offset in a document that lacks 'mobile-app'
C25_Witness ==
    /\ hookScrollY = <<1700>>
    /\ hookEvent.name = "scroll"
    /\ sectionOffsets["mobile-app"] = <<>>
    /\ sectionOffsets["operator-portal"] # <<>>
    /\ activeSection = "operator-portal"

\* the cells outside the center region (columns 4-7, rows 2-5) of the 10 x 6 grid
StatedOuterCells ==
    { c \in (1..6) \X (1..10) : ~(c[2] \in 4..7 /\ c[1] \in 2..5) }

\* the cell <<row, col>> is the i-th of the outer cells in row-major order
IsStatedSmallCell(i, row, col) ==
    /\ <<row, col>> \in StatedOuterCells
    /\ Cardinality({ c \in StatedOuterCells :
                        c[1] < row \/ (c[1] = row /\ c[2] < col) }) = i - 1

\* the cells a large cell covers
BlockCells(cell) ==
    (cell.row..(cell.row + cell.span - 1)) \X (cell.col..(cell.col + cell.span - 1))

\* C22: when the grid is rendered, the i-th small feature is on the i-th of
\* the 44 cells outside the center region in row-major order; the large
\* features are on 2x2 blocks inside the center region that overlap neither
\* each other nor a small cell; small features beyond the 44th and large
\* ones beyond the 4th are not rendered, and fewer features leave cells empty.
C22_GridPlacement ==
    gridView # <<>> =>
        LET small == gridView[1].small
            large == gridView[1].large
            data == features[1]
            min(a, b) == IF a < b THEN a ELSE b
        IN  /\ Cardinality(StatedOuterCells) = 44
            /\ Len(small) = min(Len(data.smallFeatures), 44)
            /\ \A i \in 1..Len(small) :
                  /\ small[i].feature = data.smallFeatures[i]
                  /\ IsStatedSmallCell(i, small[i].row, small[i].col)
            /\ Len(large) = min(Len(data.largeFeatures), 4)
            /\ \A i \in 1..Len(large) :
                  /\ large[i].feature = data.largeFeatures[i]
                  /\ Cardinality(BlockCells(large[i])) = 4
                  /\ BlockCells(large[i]) \cap StatedOuterCells = {}
                  /\ BlockCells(large[i]) \subseteq (1..6) \X (1..10)
                  /\ \A j \in 1..Len(large) :
                        j # i => BlockCells(large[i]) \cap BlockCells(large[j]) = {}
                  /\ \A k \in 1..Len(small) :
                        <<small[k].row, small[k].col>> \notin BlockCells(large[i])

\* a document with more than 44 small and more than 4 large features is shown
C22_Witness ==
    /\ gridView # <<>>
    /\ Len(features[1].smallFeatures) > 44
    /\ Len(features[1].largeFeatures) > 4
    /\ Len(gridView[1].small) = 44
    /\ Len(gridView[1].large) = 4

\* C23: if the feature-grid fetch fails, the error is caught and logged, the
\* loading flag of the mounted grid becomes false, features stay unset and
\* the grid renders nothing.
C23_GridFetchFailure ==
    gridFetchState = "failed" =>
        /\ features = <<>>
        /\ gridView = <<>>
        /\ gridEvent.name = "fetchFail" => gridEvent.calls[1] = "console.error"
        /\ gridMountState = "mounted" => ~isLoading

\* the fetch failed while the grid was mounted
C23_Witness ==
    /\ gridFetchState = "failed"
    /\ gridEvent.name = "fetchFail"
    /\ gridMountState = "mounted"
    /\ ~isLoading
    /\ gridView = <<>>

\* C27 as stated: if the FeatureGrid is torn down before its fetch settles,
\* the result is discarded: after teardown neither setFeatures nor
\* setIsLoading is called.
C27_GridFetchDiscardedAfterTeardown ==
    (gridEvent.name \in {"fetchResolve", "fetchFail"} /\ ~gridEvent.mounted) =>
        \A i \in 1..Len(gridEvent.calls) :
            gridEvent.calls[i] \notin {"setFeatures", "setIsLoading"}

\* the entries that pass the filter, before the sort and the truncation
Candidates == filterScored(scoredItems)

\* C26: an entry is dropped from the ranking if and only if its base match
\* score is 0: every entry whose base match score is > 0 is a candidate
\* (before truncation to 8), whatever integer priority it carries.
C26_DroppedIffNoMatch ==
    (rankPc = "ranked" /\ trim(searchQuery) # <<>>) =>
        \A i \in 1..Len(searchableItems) :
            (\E j \in 1..Len(Candidates) : Candidates[j].item = searchableItems[i])
                <=> StatedMatchScore(searchableItems[i], searchQuery) > 0

\* C28: while the TopBar stays mounted a phase 'hide' or 'show' always has
\* its timeout pending, and unless the threshold keeps being crossed the
\* phase returns to 'idle' (or the TopBar is unmounted), given that time
\* passes and a due timeout callback is run.
C28_PhaseReturnsToIdle ==
    /\ []((mountState = "mounted" /\ scrollPhase # "idle") => phaseTimer # NoTimer)
    /\ \/ []<><<isScrolled' # isScrolled>>_vars
       \/ []<>(scrollPhase = "idle" \/ mountState # "mounted")

\* the timeout of a 'show' phase fired and the phase is idle again
C28_Witness ==
    /\ mountState = "mounted"
    /\ lastEvent.name = "phaseTimeout"
    /\ lastEvent.phase = "show"
    /\ scrollPhase = "idle"
    /\ phaseTimer = NoTimer

====
